---- MODULE Spec2Model ----
(***************************************************************************)
(* Borrowing lifecycle and fine computation of BookHub.                    *)
(*                                                                         *)
(* The handlers borrowBook, returnBook and reportLostBook of the student   *)
(* controller and updateBook of the admin book controller are modelled as  *)
(* request processes over the relational store.  Every `await prisma...`   *)
(* is one atomic store operation; a handler is a sequence of such steps,   *)
(* and steps of different requests interleave freely.                      *)
(*                                                                         *)
(* Spec runs the requests concurrently at one instant; SpecSeq runs the     *)
(* students' requests one after the other while the clock advances.        *)
(* The store starts as seeded: no loan and no fine_config row.             *)
(* SpecFine runs one student's requests under each fine_config row, and    *)
(* SpecTx takes every transaction write by write, with failures.           *)
(*                                                                         *)
(* Time is counted in ticks, TicksPerDay ticks to a day.  Money is counted *)
(* in hundredths of a rupee (DECIMAL(10,2)); multipliers and percentages   *)
(* in hundredths (DECIMAL(3,2)).                                           *)
(***************************************************************************)
EXTENDS Integers, Sequences, FiniteSets, TLC

\* ------------------------------------------------------------------ bounds
MaxLoans == 2
MaxCopies == 2
TicksPerDay == 2

\* ------------------------------------------------------- program constants
DefaultLoanDays == 14
DefaultDailyFine == 5000
DefaultOverdueThreshold == 30
DefaultLostBookMultiplier == 200
DefaultSmallDamagePercentage == 10
DefaultLargeDamagePercentage == 50

\* --------------------------------------------------------------- universes
Books == {"b1", "b2"}
Students == {"s1", "s2"}
Procs == {"p1", "p2"}
GhostEmail == "ghost"
Emails == Students \cup {GhostEmail}
Terminal == {"RETURNED", "OVERDUE", "LOST"}
Statuses == {"ACTIVE"} \cup Terminal
NoConfig == [absent |-> TRUE]
NoDate == -1
NoLoan == 0
NoTotal == -1

\* copies of each seeded book
InitialCopies(b) == IF b = "b1" THEN 1 ELSE 2

\* a book row as createBook inserts it: every copy available, not deleted,
\* no review; `exists` is FALSE once the row has been deleted for good
NewBook(b) ==
    [totalCopies |-> InitialCopies(b), availableCopies |-> InitialCopies(b),
     isDeleted |-> FALSE, exists |-> TRUE, reviewers |-> {}]

\* the borrowedBook of a borrowing whose row a cascade has removed
NoBook == "none"

\* price of each seeded book, in hundredths of a rupee
BookPrice(b) == IF b = "b1" THEN 100000 ELSE 25055

VARIABLES now, books, loans, fineConfig, pc, loc, resp

vars == <<now, books, loans, fineConfig, pc, loc, resp>>

\* ----------------------------------------------------------------- helpers
IdleLoc ==
    [bookId |-> "none", studentIds |-> {}, studentRows |-> <<>>,
     borrowType |-> "none", dueDate |-> NoDate, borrowingId |-> NoLoan,
     finalStatus |-> "none", returnDate |-> NoDate, totalFine |-> 0,
     itemFine |-> 0, isLostBook |-> FALSE, damageLevel |-> "NONE",
     damageNotes |-> "none",
     totalCopies |-> 0, availableCopies |-> 0, txStep |-> 0,
     permanent |-> FALSE, userId |-> "none"]

\* Number.prototype.toFixed(2) followed by parseFloat, on a product of an
\* amount in hundredths and a factor in hundredths: the nearest hundredth,
\* a tie rounded up.
ToFixed2(x) == (x + 50) \div 100

\* whole days elapsed, the started day not counted
FloorDays(t) == t \div TicksPerDay

\* Math.ceil(ms / (1000*60*60*24)) for a positive difference in ticks
CeilDays(t) == (t + TicksPerDay - 1) \div TicksPerDay

\* `fineConfig?.field || dflt` for a Decimal column: a Prisma Decimal is an
\* object, hence truthy whatever its value; only a missing row gives dflt.
DecimalOr(field, dflt) ==
    IF fineConfig = NoConfig THEN dflt ELSE fineConfig[field]

\* `fineConfig?.overdueThreshold || 30` for the INTEGER column: 0 is falsy.
IntOr(field, dflt) ==
    IF fineConfig = NoConfig THEN dflt
    ELSE IF fineConfig[field] = 0 THEN dflt ELSE fineConfig[field]

LoanIds == 1..Len(loans)

ActiveLoansOf(b) ==
    {i \in LoanIds : loans[i].bookId = b /\ loans[i].status = "ACTIVE"}

LostLoansOf(b) ==
    {i \in LoanIds : loans[i].bookId = b /\ loans[i].status = "LOST"}

\* the same query without its status filter
anyBorrowings(ids) ==
    {<<i, s>> \in LoanIds \X Students : s \in ids /\ s \in loans[i].studentIds}

\* a query that lets go of the loans whose due date has passed
activeBorrowingsNotDue(ids) ==
    {<<i, s>> \in LoanIds \X Students :
        /\ s \in ids /\ s \in loans[i].studentIds
        /\ loans[i].status = "ACTIVE" /\ loans[i].dueDate >= now}

\* borrowingStudent.findMany({studentId in ids, borrowing.status ACTIVE})
activeBorrowings(ids) ==
    {<<i, s>> \in LoanIds \X Students :
        s \in ids /\ s \in loans[i].studentIds /\ loans[i].status = "ACTIVE"}

Finish(p, r) ==
    /\ pc' = [pc EXCEPT ![p] = "idle"]
    /\ loc' = [loc EXCEPT ![p] = IdleLoc]
    /\ resp' = r

Goto(p, label, l) ==
    /\ pc' = [pc EXCEPT ![p] = label]
    /\ loc' = [loc EXCEPT ![p] = l]
    /\ resp' = "none"

InBorrow == {p \in Procs : pc[p] \in {"borrowCheck", "borrowTx"}}

\* -------------------------------------------------------------------- Init
Init ==
    /\ now = 0
    /\ books = [b \in Books |-> NewBook(b)]
    /\ loans = <<>>
    /\ fineConfig = NoConfig
    /\ pc = [p \in Procs |-> "idle"]
    /\ loc = [p \in Procs |-> IdleLoc]
    /\ resp = "none"

\* ------------------------------------------------------------------- clock
\* The instants at which requests are observed.  A loan due at 1 is on time
\* at 1 and more than the default threshold late at the last instant; a loan
\* due at 2 is exactly the default threshold late at the last instant.
Instants == {0, 1, DefaultOverdueThreshold * TicksPerDay + 2}

Tick ==
    /\ \E t \in Instants : t > now /\ now' = t
    /\ resp' = "none"
    /\ UNCHANGED <<books, loans, fineConfig, pc, loc>>

\* The instants of the runs that settle loans under each fine configuration.
\* A loan due at 1 is returned on time at 1, less than a day late at 2, three
\* days late at the fourth instant, one day more than the default threshold
\* late at the fifth and 35 days late at the last one; a loan due at 2 is
\* exactly the default threshold late at the fifth instant.
FineInstants ==
    {0, 1, 2, 3 * TicksPerDay, DefaultOverdueThreshold * TicksPerDay + 2,
     35 * TicksPerDay + 1}

TickFine ==
    /\ \E t \in FineInstants : t > now /\ now' = t
    /\ resp' = "none"
    /\ UNCHANGED <<books, loans, fineConfig, pc, loc>>

\* -------------------------------------------------------------- borrowBook
\* a GROUP request whose list keeps the requester's own email
otherStudentEmailsUnfiltered(user, emails) == emails

\* emails of a GROUP request left after removing the requester's own
otherStudentEmails(user, emails) == SelectSeq(emails, LAMBDA e : e # user)

\* the rows of a findMany, in the order the store returns them
RECURSIVE Rows(_)
Rows(S) ==
    IF S = {} THEN <<>>
    ELSE LET x == CHOOSE y \in S : TRUE IN <<x>> \o Rows(S \ {x})

\* a lookup that also finds soft-deleted books
BookFoundDeleted(bookId) == bookId \in Books /\ books[bookId].exists

\* book.findUnique({id: bookId, isDeleted: false})
BookFound(bookId) ==
    bookId \in Books /\ books[bookId].exists /\ ~books[bookId].isDeleted

\* an availability check that only refuses a negative counter
OutOfStockBelowZero(book) == book.availableCopies < 0

\* `book.availableCopies <= 0`
OutOfStock(book) == book.availableCopies <= 0

\* user.findMany({email in list, STUDENT, verified, not deleted}): every
\* seeded student qualifies and is returned once; GhostEmail matches no row.
otherStudents(list) == {list[i] : i \in DOMAIN list} \cap Students

\* studentEmails of the requests: none, one address, the two students in
\* either order, one address twice
EmailLists == {<<>>} \cup {<<a>> : a \in Emails}
                 \cup {<<a, b>> : <<a, b>> \in Students \X Students}

\* Request bodies of borrowBook.  dueIn is the requested due date counted
\* from the instant of the request, NoDate when the request names none.
\* Sequential runs issue every well-formed request with a due date, and for
\* one student and book a request without due date, one with an unknown
\* borrowType and one with an unknown bookId.
BorrowRequests ==
    [userId : Students, bookId : Books, borrowType : {"INDIVIDUAL"},
     studentEmails : {<<>>}, dueIn : {0, 1}]
    \cup [userId : Students, bookId : Books, borrowType : {"GROUP"},
          studentEmails : EmailLists, dueIn : {1}]
    \cup [userId : {"s1"}, bookId : {"b1", "nobook"},
          borrowType : {"INDIVIDUAL", "BAD"},
          studentEmails : {<<>>}, dueIn : {NoDate}]

\* Concurrent runs issue the requests whose steps can race: individual and
\* two-student group borrows due one tick after the request.
RaceRequests ==
    [userId : Students, bookId : Books, borrowType : {"INDIVIDUAL"},
     studentEmails : {<<>>}, dueIn : {1}]
    \cup [userId : {"s1"}, bookId : Books, borrowType : {"GROUP"},
          studentEmails : {<<"s2">>}, dueIn : {1}]

\* Request bodies of updateBook: the totalCopies field, NoTotal when absent.
UpdateRequests ==
    [id : {"b1"}, totalCopies : {NoTotal} \cup (0..MaxCopies)]
    \cup [id : {"nobook"}, totalCopies : {NoTotal}]

\* Requests of deleteBook: the book and the `permanent` query flag.
DeleteRequests ==
    [id : {"b1"}, permanent : BOOLEAN]
    \cup [id : {"nobook"}, permanent : {FALSE}]

\* Requests of restoreBook.
RestoreRequests == {"b1", "nobook"}

\* Request bodies of createReview by either student; rating 0 is refused by
\* the validation, title and content are present and within their lengths.
ReviewRequests == [userId : Students, bookId : {"b1"}, rating : {0, 5}]

\* Borrow requests of the runs in which the catalogue is administered while
\* students borrow: either student, either book, due one tick later.
CatalogRequests ==
    [userId : Students, bookId : Books, borrowType : {"INDIVIDUAL"},
     studentEmails : {<<>>}, dueIn : {1}]

\* Rows of fine_config: one that differs from every default and one whose
\* fields are all 0.
CustomFineConfig ==
    [dailyFine |-> 1050, overdueThreshold |-> 1, lostBookMultiplier |-> 150,
     smallDamagePercentage |-> 25, largeDamagePercentage |-> 75]

ZeroFineConfig ==
    [dailyFine |-> 0, overdueThreshold |-> 0, lostBookMultiplier |-> 0,
     smallDamagePercentage |-> 0, largeDamagePercentage |-> 0]

FineConfigs == {NoConfig, CustomFineConfig, ZeroFineConfig}

\* Request bodies of borrowBook for the runs that settle loans under each
\* fine configuration: one student borrows either book, due one tick later.
FineRequests ==
    [userId : {"s1"}, bookId : Books, borrowType : {"INDIVIDUAL"},
     studentEmails : {<<>>}, dueIn : {1}]

\* damageLevel of the requests of returnBook
DamageInputs == {"NONE", "SMALL", "LARGE", "BAD"}
RaceDamages == {"NONE"}

\* Request validation, the availability read and the participant lookups.
\* The user table is never written by the modelled handlers, so the two
\* user reads are taken together with the book read they follow.
BorrowStart(p, Requests) ==
    /\ pc[p] = "idle"
    /\ Len(loans) + Cardinality(InBorrow) < MaxLoans
    /\ \E req \in Requests :
        LET user == req.userId
            bookId == req.bookId
            borrowType == req.borrowType
            studentEmails == req.studentEmails
            dueDate == IF req.dueIn = NoDate THEN NoDate ELSE now + req.dueIn
            others == otherStudentEmails(user, studentEmails)
            found == otherStudents(others)
        IN
        IF borrowType \notin {"INDIVIDUAL", "GROUP"}
            \/ (borrowType = "GROUP" /\ studentEmails = <<>>)
        THEN Finish(p, "BadRequest")
        ELSE IF ~BookFound(bookId)
        THEN Finish(p, "NotFound")
        ELSE IF OutOfStock(books[bookId])
        THEN Finish(p, "OutOfStock")
        ELSE IF borrowType = "GROUP" /\ Len(others) = 0
        THEN Finish(p, "BadRequest")
        ELSE IF borrowType = "GROUP" /\ Cardinality(found) # Len(others)
        THEN Finish(p, "UnknownParticipant")
        ELSE Goto(p, "borrowCheck",
                  [IdleLoc EXCEPT !.bookId = bookId,
                       !.borrowType = borrowType, !.dueDate = dueDate,
                       !.studentIds = IF borrowType = "GROUP"
                                      THEN {user} \cup found ELSE {user},
                       !.studentRows = IF borrowType = "GROUP"
                                       THEN <<user>> \o Rows(found)
                                       ELSE <<user>>])
    /\ UNCHANGED <<now, books, loans, fineConfig>>

\* The active-borrowing read and the due date validation.
BorrowCheck(p) ==
    /\ pc[p] = "borrowCheck"
    /\ LET l == loc[p]
           borrowDueDate == IF l.dueDate # NoDate THEN l.dueDate
                            ELSE now + DefaultLoanDays * TicksPerDay
       IN
       IF activeBorrowings(l.studentIds) # {}
       THEN Finish(p, "AlreadyBorrowing")
       ELSE IF borrowDueDate <= now
       THEN Finish(p, "InvalidDueDate")
       ELSE Goto(p, "borrowTx", [l EXCEPT !.dueDate = borrowDueDate])
    /\ UNCHANGED <<now, books, loans, fineConfig>>

NewLoan(l) ==
    [studentIds |-> l.studentIds, studentRows |-> l.studentRows,
     borrowType |-> l.borrowType,
     bookId |-> l.bookId, borrowDate |-> now, dueDate |-> l.dueDate,
     returnDate |-> NoDate, status |-> "ACTIVE", totalFine |-> 0,
     returned |-> FALSE, damageLevel |-> "NONE", damageNotes |-> "none",
     damageFine |-> 0]

\* a borrow that leaves the counter as it was
DecrementSkipped(b) == books

\* book.update({availableCopies: {decrement: 1}})
Decrement(b) ==
    [books EXCEPT ![b].availableCopies = books[b].availableCopies - 1]

\* book.update({availableCopies: {increment: 1}})
Increment(b) ==
    [books EXCEPT ![b].availableCopies = books[b].availableCopies + 1]

\* prisma.$transaction: borrowing, borrowedBook and borrowingStudent rows
\* are created and the counter is decremented in one unit.
\* When the book row has been deleted meanwhile, borrowedBook.create
\* violates its foreign key: the transaction rolls back and the catch
\* block answers 500.
BorrowTx(p) ==
    /\ pc[p] = "borrowTx"
    /\ IF books[loc[p].bookId].exists
       THEN /\ loans' = Append(loans, NewLoan(loc[p]))
            /\ books' = Decrement(loc[p].bookId)
            /\ Finish(p, "Created")
       ELSE /\ UNCHANGED <<loans, books>>
            /\ Finish(p, "ServerError")
    /\ UNCHANGED <<now, fineConfig>>

\* -------------------------------------------------------------- returnBook
\* a lookup of the borrowing alone, whoever asks
borrowingOfAnyone(id, user) == id \in LoanIds

\* borrowingStudent.findFirst({borrowingId, studentId})
borrowingStudent(id, user) == id \in LoanIds /\ user \in loans[id].studentIds

\* a lost classification that starts at the threshold itself
IsLostBookGe(overdueDays, overdueThreshold) == overdueDays >= overdueThreshold

\* `const isLostBook = overdueDays > overdueThreshold`
IsLostBook(overdueDays, overdueThreshold) == overdueDays > overdueThreshold

\* a total in which the lost fine replaces the overdue fine
TotalFineLostOnly(overdueFine, damageFine, lostBookFine) ==
    IF lostBookFine > 0 THEN lostBookFine ELSE overdueFine + damageFine

\* `parseFloat((overdueFine + damageFine + lostBookFine).toFixed(2))`: a sum
\* of amounts in hundredths is an amount in hundredths.
TotalFine(overdueFine, damageFine, lostBookFine) ==
    overdueFine + damageFine + lostBookFine

\* a damage fine that is charged on top of the lost fine
DamageFineAlsoWhenLost(isLostBook, damageLevel, bookPrice) ==
    IF damageLevel = "SMALL"
    THEN ToFixed2(bookPrice * DecimalOr("smallDamagePercentage",
                                  DefaultSmallDamagePercentage))
    ELSE IF damageLevel = "LARGE"
    THEN ToFixed2(bookPrice * DecimalOr("largeDamagePercentage",
                                  DefaultLargeDamagePercentage))
    ELSE 0

\* the damage fine of returnBook: none for a lost book, else by damageLevel
DamageFine(isLostBook, damageLevel, bookPrice) ==
    IF isLostBook THEN 0
    ELSE IF damageLevel = "SMALL"
    THEN ToFixed2(bookPrice * DecimalOr("smallDamagePercentage",
                                  DefaultSmallDamagePercentage))
    ELSE IF damageLevel = "LARGE"
    THEN ToFixed2(bookPrice * DecimalOr("largeDamagePercentage",
                                  DefaultLargeDamagePercentage))
    ELSE 0

\* The fine computation of returnBook, from the borrowing read by the
\* handler, the instant of the return and the damage level of the request.
\* A borrowing without borrowedBook (bookId = NoBook) has no book price to
\* charge: `if (borrowedBook) { ... }`.
ReturnFines(dueDate, returnDate, bookId, damageLevel) ==
    LET isOverdue == returnDate > dueDate
        overdueDays == IF isOverdue THEN CeilDays(returnDate - dueDate) ELSE 0
        dailyFine == DecimalOr("dailyFine", DefaultDailyFine)
        overdueThreshold == IntOr("overdueThreshold", DefaultOverdueThreshold)
        lostBookMultiplier ==
            DecimalOr("lostBookMultiplier", DefaultLostBookMultiplier)
        isLostBook == IsLostBook(overdueDays, overdueThreshold)
        overdueFine == IF isOverdue THEN overdueDays * dailyFine ELSE 0
        borrowedBook == bookId # NoBook
        bookPrice == BookPrice(bookId)
        lostBookFine == IF borrowedBook /\ isLostBook
                        THEN ToFixed2(bookPrice * lostBookMultiplier) ELSE 0
        damageFine == IF borrowedBook
                      THEN DamageFine(isLostBook, damageLevel, bookPrice)
                      ELSE 0
    IN [isOverdue |-> isOverdue, overdueDays |-> overdueDays,
        isLostBook |-> isLostBook, overdueFine |-> overdueFine,
        damageFine |-> damageFine, lostBookFine |-> lostBookFine,
        totalFine |-> TotalFine(overdueFine, damageFine, lostBookFine),
        finalStatus |-> IF isLostBook THEN "LOST"
                        ELSE IF isOverdue THEN "OVERDUE" ELSE "RETURNED"]

\* a returnBook without its status check
ReturnNeverRefused(borrowing) == FALSE

\* `borrowing.status !== 'ACTIVE'` of returnBook
ReturnNotActive(borrowing) == borrowing.status # "ACTIVE"

\* Validation, the read of the borrowing with its book, the status check,
\* the read of the fine configuration and the fine computation.  The fine
\* configuration is never written by the modelled handlers, so its read is
\* taken together with the read of the borrowing it follows.
ReturnCall(p, user, borrowingId, damageLevel) ==
    /\ pc[p] = "idle"
    /\  IF damageLevel \notin {"NONE", "SMALL", "LARGE"}
        THEN Finish(p, "BadRequest")
        ELSE IF ~borrowingStudent(borrowingId, user)
        THEN Finish(p, "NotFound")
        ELSE IF ReturnNotActive(loans[borrowingId])
        THEN Finish(p, "NotActive")
        ELSE LET borrowing == loans[borrowingId]
                 f == ReturnFines(borrowing.dueDate, now, borrowing.bookId,
                                  damageLevel)
             IN Goto(p, "returnTx",
                     [IdleLoc EXCEPT !.borrowingId = borrowingId,
                          !.bookId = borrowing.bookId,
                          !.finalStatus = f.finalStatus,
                          !.returnDate = now,
                          !.totalFine = f.totalFine,
                          !.itemFine = f.damageFine + f.lostBookFine,
                          !.isLostBook = f.isLostBook,
                          !.damageLevel = IF f.isLostBook THEN "LARGE"
                                          ELSE damageLevel,
                          !.damageNotes = IF f.isLostBook THEN "markedLost"
                                          ELSE "request"])
    /\ UNCHANGED <<now, books, loans, fineConfig>>

ReturnStart(p, Damages) ==
    \E user \in Students, borrowingId \in 1..MaxLoans, damageLevel \in Damages :
        ReturnCall(p, user, borrowingId, damageLevel)

\* a return that puts the copy back even when classified lost
IncrementAlways(isLostBook) == TRUE

\* the `!isLostBook` of `if (borrowedBook && !isLostBook)`
IncrementOnReturn(isLostBook) == ~isLostBook

\* a settlement that also moves the due date to the return instant
ReturnedLoanRescheduled(loan, l) ==
    [loan EXCEPT !.status = l.finalStatus,
                 !.returnDate = l.returnDate,
                 !.dueDate = l.returnDate,
                 !.totalFine = l.totalFine,
                 !.returned = TRUE,
                 !.damageLevel = l.damageLevel,
                 !.damageNotes = l.damageNotes,
                 !.damageFine = l.itemFine]

\* a settlement that stamps the commit instant instead of the instant the
\* fines were computed for
ReturnedLoanStampedLate(loan, l) ==
    [loan EXCEPT !.status = l.finalStatus,
                 !.returnDate = now,
                 !.totalFine = l.totalFine,
                 !.returned = TRUE,
                 !.damageLevel = l.damageLevel,
                 !.damageNotes = l.damageNotes,
                 !.damageFine = l.itemFine]

\* The loan after the two updates of returnBook's transaction:
\* borrowing.update by id, and borrowedBook.updateMany, which changes the
\* borrowedBook row when there still is one.
ReturnedLoan(loan, l) ==
    IF loan.bookId = NoBook
    THEN [loan EXCEPT !.status = l.finalStatus,
                      !.returnDate = l.returnDate,
                      !.totalFine = l.totalFine]
    ELSE [loan EXCEPT !.status = l.finalStatus,
                      !.returnDate = l.returnDate,
                      !.totalFine = l.totalFine,
                      !.returned = TRUE,
                      !.damageLevel = l.damageLevel,
                      !.damageNotes = l.damageNotes,
                      !.damageFine = l.itemFine]

\* prisma.$transaction: the borrowing and its borrowedBook are updated by
\* id whatever their current values, and the counter is incremented unless
\* the return is classified lost or the handler read no borrowedBook.  The
\* increment of a book row deleted meanwhile throws: the transaction rolls
\* back and the catch block answers 500.
ReturnTx(p) ==
    /\ pc[p] = "returnTx"
    /\ LET l == loc[p]
           increment == l.bookId # NoBook /\ IncrementOnReturn(l.isLostBook)
       IN IF increment /\ ~books[l.bookId].exists
          THEN /\ UNCHANGED <<loans, books>>
               /\ Finish(p, "ServerError")
          ELSE /\ loans' = [loans EXCEPT ![l.borrowingId] = ReturnedLoan(@, l)]
               /\ books' = IF increment THEN Increment(l.bookId) ELSE books
               /\ Finish(p, "Returned")
    /\ UNCHANGED <<now, fineConfig>>

\* ---------------------------------------------------------- reportLostBook
\* `borrowing.status !== 'ACTIVE'` of reportLostBook
ReportLostNotActive(borrowing) == borrowing.status # "ACTIVE"

\* a lost fine that is the bare book price
LostBookFineUnscaled(bookPrice, lostBookMultiplier) == bookPrice

\* `parseFloat((bookPrice * parseFloat(lostBookMultiplier)).toFixed(2))`
LostBookFine(bookPrice, lostBookMultiplier) ==
    ToFixed2(bookPrice * lostBookMultiplier)

\* The read of the borrowing with its book, the status check, the read of
\* the fine configuration and the lost fine.
ReportLostCall(p, user, borrowingId) ==
    /\ pc[p] = "idle"
    /\  IF ~borrowingStudent(borrowingId, user)
        THEN Finish(p, "NotFound")
        ELSE IF ReportLostNotActive(loans[borrowingId])
        THEN Finish(p, "NotActive")
        ELSE IF loans[borrowingId].bookId = NoBook
        THEN Finish(p, "BadRequest")
        ELSE LET borrowing == loans[borrowingId]
                 lostBookFine ==
                     LostBookFine(BookPrice(borrowing.bookId),
                                  DecimalOr("lostBookMultiplier",
                                            DefaultLostBookMultiplier))
             IN Goto(p, "lostTx",
                     [IdleLoc EXCEPT !.borrowingId = borrowingId,
                          !.bookId = borrowing.bookId,
                          !.totalFine = lostBookFine])
    /\ UNCHANGED <<now, books, loans, fineConfig>>

ReportLostStart(p) ==
    \E user \in Students, borrowingId \in 1..MaxLoans :
        ReportLostCall(p, user, borrowingId)

\* The loan after the two updates of reportLostBook's transaction; the
\* borrowedBook row is changed when there still is one.
ReportedLostLoan(loan, l) ==
    IF loan.bookId = NoBook
    THEN [loan EXCEPT !.status = "LOST",
                      !.totalFine = l.totalFine]
    ELSE [loan EXCEPT !.status = "LOST",
                      !.totalFine = l.totalFine,
                      !.returned = FALSE,
                      !.damageLevel = "LARGE",
                      !.damageNotes = "reportedLost",
                      !.damageFine = l.totalFine]

\* prisma.$transaction of reportLostBook; the counter is not touched.
ReportLostTx(p) ==
    /\ pc[p] = "lostTx"
    /\ LET l == loc[p] IN
       loans' = [loans EXCEPT ![l.borrowingId] = ReportedLostLoan(@, l)]
    /\ Finish(p, "ReportedLost")
    /\ UNCHANGED <<now, books, fineConfig>>

\* -------------------------------------------------------------- updateBook
\* The read of the existing book, the totalCopies validation and the new
\* availableCopies computed from the row that was read.
UpdateBookRead(p) ==
    /\ pc[p] = "idle"
    /\ \E req \in UpdateRequests :
        LET id == req.id
            totalCopies == req.totalCopies
        IN
        IF ~BookFoundDeleted(id)
        THEN Finish(p, "NotFound")
        ELSE IF totalCopies # NoTotal /\ totalCopies < 1
        THEN Finish(p, "BadRequest")
        ELSE LET existingBook == books[id]
                 borrowedCopies == existingBook.totalCopies
                                     - existingBook.availableCopies
                 diff == totalCopies - borrowedCopies
                 availableCopies ==
                     IF totalCopies # NoTotal
                        /\ totalCopies # existingBook.totalCopies
                     THEN (IF diff > 0 THEN diff ELSE 0)
                     ELSE existingBook.availableCopies
             IN Goto(p, "updateWrite",
                     [IdleLoc EXCEPT !.bookId = id,
                          !.totalCopies = totalCopies,
                          !.availableCopies = availableCopies])
    /\ UNCHANGED <<now, books, loans, fineConfig>>

\* book.update({where: {id}, data: updateData}): both counters are written
\* whenever the request carried totalCopies.  The update of a row deleted
\* meanwhile throws and the catch block answers 500.
UpdateBookWrite(p) ==
    /\ pc[p] = "updateWrite"
    /\ LET l == loc[p] IN
       IF ~books[l.bookId].exists
       THEN /\ UNCHANGED books
            /\ Finish(p, "ServerError")
       ELSE /\ books' = IF l.totalCopies # NoTotal
                        THEN [books EXCEPT
                                 ![l.bookId].totalCopies = l.totalCopies,
                                 ![l.bookId].availableCopies =
                                     l.availableCopies]
                        ELSE books
            /\ Finish(p, "Updated")
    /\ UNCHANGED <<now, loans, fineConfig>>

\* -------------------------------------------------------------- deleteBook
\* `existingBook.BorrowedBook.filter(bb => !bb.returned &&
\*      bb.borrowing.status === 'ACTIVE')`
bookActiveBorrowings(id) ==
    {i \in LoanIds : /\ loans[i].bookId = id
                     /\ ~loans[i].returned
                     /\ loans[i].status = "ACTIVE"}

\* The read of the book with its borrowedBooks and the refusal of a
\* permanent delete while one of them is unreturned and ACTIVE.
DeleteBookRead(p) ==
    /\ pc[p] = "idle"
    /\ \E req \in DeleteRequests :
        IF ~BookFoundDeleted(req.id)
        THEN Finish(p, "NotFound")
        ELSE IF bookActiveBorrowings(req.id) # {} /\ req.permanent
        THEN Finish(p, "BadRequest")
        ELSE Goto(p, "deleteWrite",
                  [IdleLoc EXCEPT !.bookId = req.id,
                                  !.permanent = req.permanent])
    /\ UNCHANGED <<now, books, loans, fineConfig>>

\* ON DELETE CASCADE of borrowed_books.book_id: the borrowedBook rows of the
\* deleted book go with it, the borrowings and their participants stay.
CascadeBorrowedBooks(id) ==
    [i \in LoanIds |->
        IF loans[i].bookId = id
        THEN [loans[i] EXCEPT !.bookId = NoBook,
                              !.returned = FALSE,
                              !.damageLevel = "NONE",
                              !.damageNotes = "none",
                              !.damageFine = 0]
        ELSE loans[i]]

\* book.delete({where: {id}}) with its cascades on borrowed_books and
\* reviews, or book.update({isDeleted: true}).  Either write throws when the
\* row is gone and the catch block answers 500.
DeleteBookWrite(p) ==
    /\ pc[p] = "deleteWrite"
    /\ LET id == loc[p].bookId IN
       IF ~books[id].exists
       THEN /\ UNCHANGED <<books, loans>>
            /\ Finish(p, "ServerError")
       ELSE IF loc[p].permanent
       THEN /\ books' = [books EXCEPT ![id] =
                            [NewBook(id) EXCEPT !.exists = FALSE]]
            /\ loans' = CascadeBorrowedBooks(id)
            /\ Finish(p, "Deleted")
       ELSE /\ books' = [books EXCEPT ![id].isDeleted = TRUE]
            /\ UNCHANGED loans
            /\ Finish(p, "Deleted")
    /\ UNCHANGED <<now, fineConfig>>

\* ------------------------------------------------------------- restoreBook
\* The read of the book and the refusal when it is not soft-deleted.
RestoreBookRead(p) ==
    /\ pc[p] = "idle"
    /\ \E id \in RestoreRequests :
        IF ~BookFoundDeleted(id)
        THEN Finish(p, "NotFound")
        ELSE IF ~books[id].isDeleted
        THEN Finish(p, "BadRequest")
        ELSE Goto(p, "restoreWrite", [IdleLoc EXCEPT !.bookId = id])
    /\ UNCHANGED <<now, books, loans, fineConfig>>

\* book.update({isDeleted: false})
RestoreBookWrite(p) ==
    /\ pc[p] = "restoreWrite"
    /\ LET id == loc[p].bookId IN
       IF ~books[id].exists
       THEN /\ UNCHANGED books
            /\ Finish(p, "ServerError")
       ELSE /\ books' = [books EXCEPT ![id].isDeleted = FALSE]
            /\ Finish(p, "Restored")
    /\ UNCHANGED <<now, loans, fineConfig>>

\* ------------------------------------------------------------ createReview
\* Validation of the body and the read of the book, which a soft-deleted
\* book fails.
CreateReviewRead(p) ==
    /\ pc[p] = "idle"
    /\ \E req \in ReviewRequests :
        IF req.rating < 1 \/ req.rating > 5
        THEN Finish(p, "BadRequest")
        ELSE IF ~BookFound(req.bookId)
        THEN Finish(p, "NotFound")
        ELSE Goto(p, "reviewCheck",
                  [IdleLoc EXCEPT !.bookId = req.bookId,
                                  !.userId = req.userId])
    /\ UNCHANGED <<now, books, loans, fineConfig>>

\* review.findFirst({bookId, studentId: currentUserId}): one review per
\* student and book.
CreateReviewCheck(p) ==
    /\ pc[p] = "reviewCheck"
    /\ IF loc[p].userId \in books[loc[p].bookId].reviewers
       THEN Finish(p, "BadRequest")
       ELSE Goto(p, "reviewWrite", loc[p])
    /\ UNCHANGED <<now, books, loans, fineConfig>>

\* review.create; the foreign key on book_id fails when the book row is
\* gone and the catch block answers 500.
CreateReviewWrite(p) ==
    /\ pc[p] = "reviewWrite"
    /\ LET id == loc[p].bookId IN
       IF ~books[id].exists
       THEN /\ UNCHANGED books
            /\ Finish(p, "ServerError")
       ELSE /\ books' = [books EXCEPT ![id].reviewers =
                                         @ \cup {loc[p].userId}]
            /\ Finish(p, "Created")
    /\ UNCHANGED <<now, loans, fineConfig>>

\* ------------------------------------------------------------ transactions
\* The three prisma.$transaction callbacks write by write.  A write issued
\* on the transaction client `tx` takes effect on the store when the
\* transaction commits; when a write throws, the transaction is rolled back
\* and the handler's catch answers 500.
TxLabels == {"borrowTx", "returnTx", "lostTx"}

\* the number of writes of the transaction of the handler at label h
TxWrites(h, l) ==
    IF h = "borrowTx" THEN 4
    ELSE IF h = "returnTx"
    THEN (IF l.bookId # NoBook /\ IncrementOnReturn(l.isLostBook)
          THEN 3 ELSE 2)
    ELSE 2

\* The store after write w of the transaction at label h with locals l is
\* applied to the store st.  The writes of a settlement address the loan by
\* borrowingId, those of a borrow the borrowing just created.
WriteEffect(h, w, l, st) ==
    LET last == Len(st.loans)
        id == l.borrowingId
    IN
    IF h = "borrowTx" THEN
        IF w = 1
        THEN [st EXCEPT !.loans =
                 Append(@, [NewLoan(l) EXCEPT !.bookId = NoBook,
                                              !.studentRows = <<>>])]
        ELSE IF w = 2
        THEN [st EXCEPT !.loans[last].bookId = l.bookId]
        ELSE IF w = 3
        THEN [st EXCEPT !.loans[last].studentRows = l.studentRows]
        ELSE [st EXCEPT !.books[l.bookId].availableCopies = @ - 1]
    ELSE IF h = "returnTx" THEN
        IF w = 1
        THEN [st EXCEPT !.loans[id].status = l.finalStatus,
                        !.loans[id].returnDate = l.returnDate,
                        !.loans[id].totalFine = l.totalFine]
        ELSE IF w = 2
        THEN [st EXCEPT !.loans[id].returned = TRUE,
                        !.loans[id].damageLevel = l.damageLevel,
                        !.loans[id].damageNotes = l.damageNotes,
                        !.loans[id].damageFine = l.itemFine]
        ELSE [st EXCEPT !.books[l.bookId].availableCopies = @ + 1]
    ELSE
        IF w = 1
        THEN [st EXCEPT !.loans[id].status = "LOST",
                        !.loans[id].totalFine = l.totalFine]
        ELSE [st EXCEPT !.loans[id].returned = FALSE,
                        !.loans[id].damageLevel = "LARGE",
                        !.loans[id].damageNotes = "reportedLost",
                        !.loans[id].damageFine = l.totalFine]

\* a borrow whose counter update is issued on the global client
OnTxButCounter(h, w) == ~(h = "borrowTx" /\ w = 4)

\* every write of the three callbacks is issued on `tx`
OnTx(h, w) == TRUE

\* the store after the writes w..n issued on `tx` are applied in order
RECURSIVE Committed(_, _, _, _, _)
Committed(h, l, st, w, n) ==
    IF w > n THEN st
    ELSE Committed(h, l,
                   IF OnTx(h, w) THEN WriteEffect(h, w, l, st) ELSE st,
                   w + 1, n)

\* the next write of the callback is issued
TxWrite(p) ==
    /\ pc[p] \in TxLabels
    /\ loc[p].txStep < TxWrites(pc[p], loc[p])
    /\ LET w == loc[p].txStep + 1
           st == [loans |-> loans, books |-> books]
           new == IF OnTx(pc[p], w) THEN st
                  ELSE WriteEffect(pc[p], w, loc[p], st)
       IN /\ loans' = new.loans
          /\ books' = new.books
          /\ loc' = [loc EXCEPT ![p].txStep = w]
    /\ resp' = "none"
    /\ UNCHANGED <<now, fineConfig, pc>>

\* the callback returns and the transaction commits
TxCommit(p) ==
    /\ pc[p] \in TxLabels
    /\ loc[p].txStep = TxWrites(pc[p], loc[p])
    /\ LET new == Committed(pc[p], loc[p],
                            [loans |-> loans, books |-> books],
                            1, loc[p].txStep)
       IN loans' = new.loans /\ books' = new.books
    /\ Finish(p, IF pc[p] = "borrowTx" THEN "Created"
                 ELSE IF pc[p] = "returnTx" THEN "Returned"
                 ELSE "ReportedLost")
    /\ UNCHANGED <<now, fineConfig>>

\* a write or the commit throws: rollback, and the catch block answers 500
TxFail(p) ==
    /\ pc[p] \in TxLabels
    /\ Finish(p, "ServerError")
    /\ UNCHANGED <<now, books, loans, fineConfig>>

\* ---------------------------------------------------------- specifications
StudentStep(p, Requests, Damages) ==
    \/ BorrowStart(p, Requests)
    \/ BorrowCheck(p)
    \/ BorrowTx(p)
    \/ ReturnStart(p, Damages)
    \/ ReturnTx(p)
    \/ ReportLostStart(p)
    \/ ReportLostTx(p)

AdminStep(p) ==
    \/ UpdateBookRead(p)
    \/ UpdateBookWrite(p)

\* Concurrent requests: the steps of the students' requests and of the
\* admin's updateBook interleave freely.
Next ==
    \/ \E p \in Procs : StudentStep(p, RaceRequests, RaceDamages)
    \/ AdminStep("p2")

Spec == Init /\ [][Next]_vars

\* Sequential student requests: each request runs to its response before
\* the next one starts, and the clock advances between the steps.
NextSeq ==
    \/ Tick
    \/ StudentStep("p1", BorrowRequests, DamageInputs)

SpecSeq == Init /\ [][NextSeq]_vars

\* The store may hold any fine_config row: one student's requests run one
\* after the other under each row while the clock advances.
InitFine ==
    /\ now = 0
    /\ books = [b \in Books |-> NewBook(b)]
    /\ loans = <<>>
    /\ fineConfig \in FineConfigs
    /\ pc = [p \in Procs |-> "idle"]
    /\ loc = [p \in Procs |-> IdleLoc]
    /\ resp = "none"

NextFine ==
    \/ TickFine
    \/ StudentStep("p1", FineRequests, DamageInputs)

SpecFine == InitFine /\ [][NextFine]_vars

\* One student's requests run one after the other; each transaction is
\* taken write by write and may fail at any of them.
NextTx ==
    \/ BorrowStart("p1", FineRequests)
    \/ BorrowCheck("p1")
    \/ ReturnStart("p1", RaceDamages)
    \/ ReportLostStart("p1")
    \/ TxWrite("p1")
    \/ TxCommit("p1")
    \/ TxFail("p1")

SpecTx == Init /\ [][NextTx]_vars

TypeOK ==
    /\ now \in Nat
    /\ Len(loans) <= MaxLoans
    /\ \A i \in LoanIds : loans[i].status \in Statuses
    /\ \A p \in Procs : pc[p] \in {"idle", "borrowCheck", "borrowTx",
                                    "returnTx", "lostTx", "updateWrite",
                                    "deleteWrite", "restoreWrite",
                                    "reviewCheck", "reviewWrite"}
    /\ \A b \in Books : books[b].reviewers \subseteq Students

\* The catalogue administered while a student borrows, settles and
\* reviews: the student's requests run one after the other on p1, the
\* administrator's on p2, and the steps of the two interleave.
CatalogStep(p) ==
    \/ DeleteBookRead(p)
    \/ DeleteBookWrite(p)
    \/ RestoreBookRead(p)
    \/ RestoreBookWrite(p)

ReviewStep(p) ==
    \/ CreateReviewRead(p)
    \/ CreateReviewCheck(p)
    \/ CreateReviewWrite(p)

NextAdmin ==
    \/ StudentStep("p1", CatalogRequests, RaceDamages)
    \/ ReviewStep("p1")
    \/ AdminStep("p2")
    \/ CatalogStep("p2")

SpecAdmin == Init /\ [][NextAdmin]_vars

\* ------------------------------------------------------------ properties
Idle == \A p \in Procs : pc[p] = "idle"

ParticipantLoans(st) ==
    {i \in LoanIds : st \in loans[i].studentIds /\ loans[i].status = "ACTIVE"}

\* C1 (as stated): for every book, availableCopies plus the number of its
\* ACTIVE loans equals totalCopies, also after a loan became LOST.
InventoryConservation ==
    \A b \in Books :
        books[b].availableCopies + Cardinality(ActiveLoansOf(b))
            = books[b].totalCopies

\* C1 (amended): when the students' requests run one after the other, for
\* every book availableCopies plus the number of its ACTIVE loans plus the
\* number of its LOST loans equals totalCopies: the copy of a loan that ends
\* LOST, by a late return or by a lost report, never goes back to the counter.
InventoryConservationWithLost ==
    \A b \in Books :
        books[b].availableCopies + Cardinality(ActiveLoansOf(b))
            + Cardinality(LostLoansOf(b)) = books[b].totalCopies

\* a late return classified LOST and a lost report have both been settled
C1Witness ==
    /\ Idle
    /\ \E i, j \in LoanIds :
          /\ loans[i].status = "LOST" /\ loans[i].returned
          /\ loans[j].status = "LOST" /\ ~loans[j].returned

\* C2: for every book 0 <= availableCopies <= totalCopies, in every state
\* of any interleaving of borrowBook, returnBook, reportLostBook and
\* updateBook.
CopiesWithinBounds ==
    \A b \in Books :
        /\ 0 <= books[b].availableCopies
        /\ books[b].availableCopies <= books[b].totalCopies

\* C3: the decrement of borrowBook is never applied to a book that has no
\* available copy, so of two concurrent borrows of the last copy only one
\* creates its loan.
NoOversell ==
    [][\A p \in Procs :
          BorrowTx(p) => books[loc[p].bookId].availableCopies >= 1]_vars

\* C4: no student is a participant of two ACTIVE loans.
SingleActiveLoan ==
    \A st \in Students : Cardinality(ParticipantLoans(st)) <= 1

\* C5: a loan in a terminal status keeps that status in every later state.
TerminalStatusIsFinal ==
    [][\A i \in LoanIds :
          loans[i].status \in Terminal
              => loans'[i].status = loans[i].status]_vars

\* C6: when returnBook has completed on a loan, a later returnBook or
\* reportLostBook by a participant of that loan is answered "not active"
\* and changes neither the loan, its borrowedBook nor any counter.
SettledLoanIsRefused ==
    [][\A st \in Students, i \in 1..MaxLoans :
          (/\ i \in LoanIds
           /\ st \in loans[i].studentIds
           /\ loans[i].status \in Terminal
           /\ \/ \E d \in {"NONE", "SMALL", "LARGE"} :
                    ReturnCall("p1", st, i, d)
              \/ ReportLostCall("p1", st, i))
          => (resp' = "NotActive" /\ UNCHANGED <<loans, books>>)]_vars

\* a settlement request on a returned loan has been answered "not active"
C6Witness ==
    /\ resp = "NotActive"
    /\ \E i \in LoanIds : loans[i].returned /\ loans[i].status \in Terminal

\* C7: a settlement transaction is only ever applied to a loan that is
\* still ACTIVE, so of two concurrent settlements of one loan a single one
\* takes effect and the counter is incremented once.
SettlementOnlyOfActive ==
    [][\A p \in Procs :
          (ReturnTx(p) \/ ReportLostTx(p))
              => loans[loc[p].borrowingId].status = "ACTIVE"]_vars

\* C8: totalFine is 0 while the loan is ACTIVE and, once the loan is
\* settled, is the same in every later state.
TotalFineWrittenOnce ==
    [][\A i \in LoanIds :
          /\ loans[i].status = "ACTIVE" => loans[i].totalFine = 0
          /\ loans[i].status \in Terminal
                => loans'[i].totalFine = loans[i].totalFine]_vars

\* the overdue days of a settled return, from the dates the loan holds
LateDays(loan) ==
    IF loan.returnDate > loan.dueDate
    THEN CeilDays(loan.returnDate - loan.dueDate) ELSE 0

\* C9: a loan settled by returnBook is LOST when its overdue days exceed
\* the overdue threshold, otherwise OVERDUE when it was returned after the
\* due date, otherwise RETURNED, whatever its damage level; returned on
\* time without damage it has no fine.
ReturnStatusRule ==
    \A i \in LoanIds :
        loans[i].returned =>
            /\ loans[i].status =
                  IF LateDays(loans[i])
                        > IntOr("overdueThreshold", DefaultOverdueThreshold)
                  THEN "LOST"
                  ELSE IF loans[i].returnDate > loans[i].dueDate
                  THEN "OVERDUE" ELSE "RETURNED"
            /\ (loans[i].returnDate <= loans[i].dueDate
                  /\ loans[i].damageLevel = "NONE")
                  => (loans[i].totalFine = 0 /\ loans[i].status = "RETURNED")

\* one return exactly at the threshold and one beyond it have been settled
C9Witness ==
    \E i, j \in LoanIds :
        /\ loans[i].returned /\ loans[i].status = "OVERDUE"
        /\ LateDays(loans[i]) = DefaultOverdueThreshold
        /\ loans[j].returned /\ loans[j].status = "LOST"

\* C10: the transaction of returnBook adds exactly 1 to availableCopies of
\* the borrowed book when the return is not classified lost and nothing
\* when it is, and changes no other counter.
ReturnIncrementsOnce ==
    [][ReturnTx("p1") =>
          \A b \in Books :
              /\ books'[b].totalCopies = books[b].totalCopies
              /\ books'[b].availableCopies = books[b].availableCopies
                    + (IF b = loc["p1"].bookId
                          /\ loans'[loc["p1"].borrowingId].status # "LOST"
                       THEN 1 ELSE 0)]_vars

\* a return classified LOST has completed and its copy is still missing
C10Witness ==
    /\ resp = "Returned"
    /\ \E i \in LoanIds :
          /\ loans[i].returned /\ loans[i].status = "LOST"
          /\ books[loans[i].bookId].availableCopies
                < books[loans[i].bookId].totalCopies

\* the fine policy in force: the fine_config row, the defaults without one
PolicyLostMultiplier ==
    DecimalOr("lostBookMultiplier", DefaultLostBookMultiplier)

PolicyDailyRate == DecimalOr("dailyFine", DefaultDailyFine)

PolicyDamagePercentage(level) ==
    IF level = "SMALL"
    THEN DecimalOr("smallDamagePercentage", DefaultSmallDamagePercentage)
    ELSE IF level = "LARGE"
    THEN DecimalOr("largeDamagePercentage", DefaultLargeDamagePercentage)
    ELSE 0

\* the overdue threshold returnBook compares with: `overdueThreshold`
HandlerOverdueThreshold == IntOr("overdueThreshold", DefaultOverdueThreshold)

\* price times a factor in hundredths, to the nearest hundredth of a rupee
PriceTimes(bookId, factor) == (BookPrice(bookId) * factor + 50) \div 100

TotalFineIsSum ==
    \A i \in LoanIds :
        loans[i].returned =>
            /\ loans[i].totalFine
                  = LateDays(loans[i]) * PolicyDailyRate + loans[i].damageFine
            /\ loans[i].status = "LOST"
                  => loans[i].damageFine
                        = PriceTimes(loans[i].bookId, PolicyLostMultiplier)
            /\ (fineConfig = NoConfig /\ loans[i].bookId = "b1"
                  /\ LateDays(loans[i]) = 35)
                  => (loans[i].totalFine = 375000 /\ loans[i].status = "LOST")

\* without fine_config row the book priced 1000 has been returned 35 days late
C12Witness ==
    /\ fineConfig = NoConfig
    /\ \E i \in LoanIds :
          /\ loans[i].returned /\ loans[i].bookId = "b1"
          /\ LateDays(loans[i]) = 35
          /\ loans[i].totalFine = 175000 + 200000

\* C13: the lost classification of returnBook is strict: a return whose
\* overdueDays equal overdueThreshold ends OVERDUE with no lost fine and puts
\* the copy back; a return with overdueDays = overdueThreshold + 1 ends LOST
\* and leaves the counter as it is.
LostIsStrict ==
    [][ReturnTx("p1")
          => LET i == loc["p1"].borrowingId
                 b == loans[i].bookId
                 late == LateDays(loans'[i])
             IN
             /\ late = HandlerOverdueThreshold
                   => /\ loans'[i].status = "OVERDUE"
                      /\ loans'[i].damageFine
                            = PriceTimes(b, PolicyDamagePercentage(
                                                loans'[i].damageLevel))
                      /\ books'[b].availableCopies
                            = books[b].availableCopies + 1
             /\ late = HandlerOverdueThreshold + 1
                   => (loans'[i].status = "LOST" /\ books' = books)]_vars

\* under the configured threshold of one day, one loan has been returned one
\* day late and another two days late
C13Witness ==
    /\ fineConfig = CustomFineConfig
    /\ \E i, j \in LoanIds :
          /\ loans[i].returned /\ LateDays(loans[i]) = 1
          /\ loans[i].status = "OVERDUE"
          /\ loans[j].returned /\ LateDays(loans[j]) = 2
          /\ loans[j].status = "LOST"

\* C14: in returnBook the damage fine and the lost fine exclude each other:
\* a return classified lost has lostFine = bookPrice x lostMultiplier and no
\* damage fine whatever damageLevel the request carried; any other return has
\* no lost fine and the damage fine bookPrice x smallPct for SMALL,
\* bookPrice x largePct for LARGE and 0 for NONE.  The transaction stores
\* the fines the handler computed.
DamageAndLostExclusive ==
    [][/\ (pc["p1"] = "idle" /\ pc'["p1"] = "returnTx")
             => LET i == loc'["p1"].borrowingId
                    late == IF now > loans[i].dueDate
                            THEN CeilDays(now - loans[i].dueDate) ELSE 0
                    itemFine ==
                        IF late > HandlerOverdueThreshold
                        THEN PriceTimes(loans[i].bookId, PolicyLostMultiplier)
                        ELSE PriceTimes(loans[i].bookId,
                                        PolicyDamagePercentage(
                                            loc'["p1"].damageLevel))
                IN /\ loc'["p1"].itemFine = itemFine
                   /\ loc'["p1"].totalFine = late * PolicyDailyRate + itemFine
                   /\ late <= HandlerOverdueThreshold
                         => \E d \in {"NONE", "SMALL", "LARGE"} :
                               /\ loc'["p1"].damageLevel = d
                               /\ \E st \in Students :
                                     ReturnCall("p1", st, i, d)
       /\ ReturnTx("p1")
             => /\ loans'[loc["p1"].borrowingId].damageFine
                      = loc["p1"].itemFine
                /\ loans'[loc["p1"].borrowingId].totalFine
                      = loc["p1"].totalFine]_vars

\* under the configured policy a return classified lost carries the lost
\* fine alone and a return with SMALL damage carries 25% of the price
C14Witness ==
    /\ fineConfig = CustomFineConfig
    /\ \E i, j \in LoanIds :
          /\ loans[i].returned /\ loans[i].status = "LOST"
          /\ loans[i].damageFine
                = PriceTimes(loans[i].bookId, CustomFineConfig.lostBookMultiplier)
          /\ loans[j].returned /\ loans[j].status # "LOST"
          /\ loans[j].damageLevel = "SMALL"
          /\ loans[j].damageFine
                = PriceTimes(loans[j].bookId,
                             CustomFineConfig.smallDamagePercentage)

\* a request body borrowBook's validation accepts
WellFormed(req) ==
    /\ req.borrowType \in {"INDIVIDUAL", "GROUP"}
    /\ req.borrowType = "GROUP" => req.studentEmails # <<>>

\* C15: a borrowBook request for a book whose availableCopies is 0 is
\* answered "out of stock", and a borrowBook that is refused, at whatever
\* check, creates no loan and changes no book counter.
OutOfStockRefused ==
    [][/\ (/\ pc["p1"] = "idle"
           /\ \/ resp' \in {"BadRequest", "NotFound", "UnknownParticipant"}
              \/ pc'["p1"] = "borrowCheck")
             => \A req \in BorrowRequests :
                   (/\ WellFormed(req)
                    /\ req.bookId \in Books
                    /\ books[req.bookId].availableCopies = 0)
                   => ~BorrowStart("p1", {req})
       /\ (/\ resp' # "none"
           /\ pc["p1"] \in {"idle", "borrowCheck"}
           /\ BorrowStart("p1", BorrowRequests) \/ BorrowCheck("p1"))
             => (/\ resp' \in {"BadRequest", "NotFound", "OutOfStock",
                               "UnknownParticipant", "AlreadyBorrowing",
                               "InvalidDueDate"}
                 /\ UNCHANGED <<loans, books>>)]_vars

\* a borrow of a book without available copy has just been refused
C15Witness ==
    /\ resp = "OutOfStock"
    /\ books["b1"].availableCopies = 0
    /\ Cardinality(ActiveLoansOf("b1")) = 1

\* C16: borrowBook creates no loan while the requester or a named group
\* member is a participant of an ACTIVE loan, and refuses on this ground
\* only then: loans in RETURNED, OVERDUE or LOST status, unpaid fine or not,
\* do not count.
ActiveBorrowerRefused ==
    [][/\ BorrowTx("p1")
             => \A st \in loc["p1"].studentIds : ParticipantLoans(st) = {}
       /\ (BorrowCheck("p1")
              /\ \E st \in loc["p1"].studentIds : ParticipantLoans(st) # {})
             => resp' = "AlreadyBorrowing"
       /\ (BorrowCheck("p1") /\ resp' = "AlreadyBorrowing")
             => \E st \in loc["p1"].studentIds : ParticipantLoans(st) # {}]_vars

\* a student whose earlier loan is LOST with a fine has borrowed again
C16Witness ==
    /\ resp = "Created"
    /\ \E i, j \in LoanIds :
          /\ loans[i].status = "LOST" /\ loans[i].totalFine > 0
          /\ loans[j].status = "ACTIVE"
          /\ loans[i].studentIds \cap loans[j].studentIds # {}

\* the elements of a sequence
Range(seq) == {seq[k] : k \in DOMAIN seq}

NoRepeat(seq) == \A j, k \in DOMAIN seq : seq[j] = seq[k] => j = k

\* C17: a GROUP borrow gets past the participant lookup only if, after
\* removing the requester's own email, at least one email is left and every
\* one left is a verified, non-deleted student; the loan then created has
\* as participants exactly the requester and those students, none twice.
GroupParticipants ==
    [][/\ (pc["p1"] = "idle" /\ pc'["p1"] = "borrowCheck"
              /\ loc'["p1"].borrowType = "GROUP")
             => \A req \in BorrowRequests :
                   BorrowStart("p1", {req})
                   => LET others == Range(req.studentEmails) \ {req.userId}
                      IN /\ others # {}
                         /\ others \subseteq Students
                         /\ loc'["p1"].studentIds = {req.userId} \cup others
       /\ BorrowTx("p1")
             => LET loan == loans'[Len(loans')] IN
                /\ Len(loans') = Len(loans) + 1
                /\ loan.studentIds = loc["p1"].studentIds
                /\ Range(loan.studentRows) = loan.studentIds
                /\ NoRepeat(loan.studentRows)
                /\ loan.borrowType = "GROUP"
                      => Cardinality(loan.studentIds) >= 2]_vars

\* a group loan of both students has been created
C17Witness ==
    /\ resp = "Created"
    /\ \E i \in LoanIds :
          /\ loans[i].borrowType = "GROUP"
          /\ loans[i].studentIds = {"s1", "s2"}
          /\ Len(loans[i].studentRows) = 2

\* C18: every loan has a due date strictly later than the instant of its
\* creation.
DueDateAfterCreation ==
    \A i \in LoanIds : loans[i].dueDate > loans[i].borrowDate

\* C20: returnBook or reportLostBook by a student who is no participant of
\* the loan, or for a loan id that does not exist, is answered "not found"
\* and changes neither loan nor counter; each participant of an ACTIVE
\* GROUP loan gets past the lookup and the status check.
OnlyParticipantsSettle ==
    [][\A st \in Students, i \in 1..MaxLoans :
          /\ (/\ pc["p1"] = "idle"
              /\ i \notin LoanIds \/ st \notin loans[i].studentIds
              /\ \/ \E d \in {"NONE", "SMALL", "LARGE"} :
                       ReturnCall("p1", st, i, d)
                 \/ ReportLostCall("p1", st, i))
             => (resp' = "NotFound" /\ UNCHANGED <<loans, books>>)
          /\ (/\ pc["p1"] = "idle"
              /\ i \in LoanIds
              /\ loans[i].status = "ACTIVE"
              /\ st \in loans[i].studentIds)
             => /\ ReturnCall("p1", st, i, "NONE")
                      => (pc'["p1"] = "returnTx"
                          /\ loc'["p1"].borrowingId = i)
                /\ ReportLostCall("p1", st, i)
                      => (pc'["p1"] = "lostTx"
                          /\ loc'["p1"].borrowingId = i)]_vars

\* a settlement request has been answered "not found" while an ACTIVE loan
\* exists that one of the students is no participant of; no borrowBook can
\* have answered, the store holding as many loans as it may
C20Witness ==
    /\ resp = "NotFound"
    /\ Len(loans) = MaxLoans
    /\ \E i \in LoanIds, st \in Students :
          loans[i].status = "ACTIVE" /\ st \notin loans[i].studentIds

\* every loan the store shows has its borrowedBook and its participant
\* rows, and its borrowedBook is settled exactly when the loan is
LoanIsWhole(loan) ==
    /\ loan.bookId \in Books
    /\ loan.studentRows # <<>>
    /\ Range(loan.studentRows) = loan.studentIds
    /\ loan.status = "ACTIVE"
          => (loan.damageNotes = "none" /\ loan.totalFine = 0)
    /\ loan.status \in Terminal => loan.damageNotes # "none"
    /\ loan.status = "LOST" => loan.damageLevel = "LARGE"

\* C19: the transactions of borrowBook, returnBook and reportLostBook are
\* all-or-nothing.  In every state, while a transaction is under way and
\* after one has failed at any of its writes, each loan in the store is
\* whole and every counter accounts for the loans of its book: no loan
\* without decrement, no settled loan without its borrowedBook update or
\* its increment.  What a committed transaction changes is what the
\* handler's transaction changes as a single step.
TxAtomic ==
    [][/\ \A i \in 1..Len(loans') : LoanIsWhole(loans'[i])
       /\ \A b \in Books :
             books'[b].availableCopies
                + Cardinality({i \in 1..Len(loans') :
                      /\ loans'[i].bookId = b
                      /\ loans'[i].status \in {"ACTIVE", "LOST"}})
                = books'[b].totalCopies
       /\ (TxWrite("p1") \/ TxFail("p1")) => UNCHANGED <<loans, books>>
       /\ TxCommit("p1")
             => (BorrowTx("p1") \/ ReturnTx("p1") \/ ReportLostTx("p1"))]_vars

\* every write of a borrow has been issued and nothing is committed yet
C19Witness ==
    /\ pc["p1"] = "borrowTx"
    /\ loc["p1"].txStep = 4
    /\ loc["p1"].bookId = "b1"
    /\ books["b1"].availableCopies = books["b1"].totalCopies
    /\ ActiveLoansOf("b1") = {}
    /\ \E i \in LoanIds : loans[i].status = "LOST"

\* a step that commits the transaction of borrowBook, returnBook or
\* reportLostBook
TxStep == pc["p1"] \in TxLabels /\ pc'["p1"] = "idle"

\* C21: availableCopies of a book and the status and totalFine of a loan are
\* written only by the transactions of borrowBook, returnBook and
\* reportLostBook: every other step, in particular of updateBook, deleteBook
\* and restoreBook, leaves them as they were.
CountersWrittenByTxOnly ==
    [][~TxStep =>
        /\ \A b \in Books :
              books'[b].exists =>
                  books'[b].availableCopies = books[b].availableCopies
        /\ Len(loans') = Len(loans)
        /\ \A i \in LoanIds :
              /\ loans'[i].status = loans[i].status
              /\ loans'[i].totalFine = loans[i].totalFine]_vars

\* the overdue threshold of the fine policy: the row's value when there is
\* a row, 0 included
ConfiguredOverdueThreshold ==
    IF fineConfig = NoConfig THEN DefaultOverdueThreshold
    ELSE fineConfig.overdueThreshold

\* C22: the defaults apply only without fine_config row; with a row, every
\* loan settled by returnBook is classified and charged with the row's
\* dailyFine, overdueThreshold, lostBookMultiplier and damage percentages,
\* also when the configured value is 0.
ConfiguredPolicyUsed ==
    \A i \in LoanIds :
        loans[i].returned =>
            /\ (loans[i].status = "LOST")
                  <=> (LateDays(loans[i]) > ConfiguredOverdueThreshold)
            /\ loans[i].totalFine
                  = LateDays(loans[i]) * PolicyDailyRate + loans[i].damageFine
            /\ loans[i].damageFine
                  = IF loans[i].status = "LOST"
                    THEN PriceTimes(loans[i].bookId, PolicyLostMultiplier)
                    ELSE PriceTimes(loans[i].bookId,
                             PolicyDamagePercentage(loans[i].damageLevel))

\* C23: once a loan exists, its participants, its borrow type and its due
\* date are never changed: every step, those of returnBook and
\* reportLostBook included, leaves them as borrowBook created them.
LoanTermsFixed ==
    [][\A i \in LoanIds :
          /\ i <= Len(loans')
          /\ loans'[i].studentIds = loans[i].studentIds
          /\ loans'[i].studentRows = loans[i].studentRows
          /\ loans'[i].borrowType = loans[i].borrowType
          /\ loans'[i].dueDate = loans[i].dueDate]_vars

\* a two-student loan has been settled by returnBook and another loan by
\* reportLostBook
C23Witness ==
    \E i, j \in LoanIds :
        /\ loans[i].borrowType = "GROUP"
        /\ Cardinality(loans[i].studentIds) = 2
        /\ loans[i].returned /\ loans[i].status \in Terminal
        /\ loans[j].status = "LOST" /\ ~loans[j].returned

\* the loans that are ACTIVE after their due date
ActivePastDue == {i \in LoanIds : loans[i].status = "ACTIVE"
                                  /\ now > loans[i].dueDate}

\* C24: status is lazy.  The passage of time changes no loan and no
\* counter; a loan leaves ACTIVE, and OVERDUE or LOST is written, only by
\* the transaction of returnBook or reportLostBook; and however long after
\* its due date a loan is still ACTIVE, a borrowBook of one of its
\* participants is refused as already borrowing.
StatusIsLazy ==
    [][/\ now' # now => (loans' = loans /\ books' = books)
       /\ \A i \in LoanIds :
             loans'[i].status # loans[i].status
                => /\ pc["p1"] \in {"returnTx", "lostTx"}
                   /\ loc["p1"].borrowingId = i
                   /\ loans[i].status = "ACTIVE"
       /\ (/\ pc["p1"] = "borrowCheck" /\ pc'["p1"] = "idle"
           /\ \E st \in loc["p1"].studentIds :
                 ParticipantLoans(st) \cap ActivePastDue # {})
             => (resp' = "AlreadyBorrowing" /\ loans' = loans)]_vars

\* more than the overdue threshold after its due date a loan is still
\* ACTIVE, its copy is out and its participant has just been refused
C24Witness ==
    /\ resp = "AlreadyBorrowing"
    /\ \E i \in LoanIds :
          /\ loans[i].status = "ACTIVE"
          /\ now > loans[i].dueDate + DefaultOverdueThreshold * TicksPerDay
          /\ books[loans[i].bookId].availableCopies
                < books[loans[i].bookId].totalCopies

\* C25: every loan has exactly one loaned item from its creation on; the
\* item is created unreturned and undamaged and stays so while the loan is
\* ACTIVE.
OneLoanedItem ==
    \A i \in LoanIds :
        /\ loans[i].bookId # NoBook
        /\ loans[i].status = "ACTIVE"
              => /\ ~loans[i].returned
                 /\ loans[i].damageLevel = "NONE"
                 /\ loans[i].damageNotes = "none"
                 /\ loans[i].damageFine = 0

\* C26: a review of a book by a student exists only if the student is or
\* was a participant of a loan of that book.
ReviewersHaveBorrowed ==
    \A b \in Books :
        \A st \in books[b].reviewers :
            \E i \in LoanIds :
                loans[i].bookId = b /\ st \in loans[i].studentIds

\* the least number of whole days that covers t ticks
WholeDaysCovering(t) ==
    CHOOSE n \in 0..t : n * TicksPerDay >= t /\ (n - 1) * TicksPerDay < t

\* C27: overdueDays is the time elapsed past the due date rounded up to
\* whole days and never negative.  A return at or before the due date has
\* no overdue fine; a return any positive time after it, less than a day
\* included, is charged at least one daily rate, one rate per started day,
\* and does not end RETURNED.
OverdueDaysRoundUp ==
    \A i \in LoanIds :
        loans[i].returned =>
            LET late == loans[i].returnDate - loans[i].dueDate
                overdueFine == loans[i].totalFine - loans[i].damageFine
            IN /\ late <= 0 => overdueFine = 0
               /\ late > 0 =>
                     /\ WholeDaysCovering(late) >= 1
                     /\ overdueFine = WholeDaysCovering(late) * PolicyDailyRate
                     /\ overdueFine >= PolicyDailyRate
                     /\ loans[i].status # "RETURNED"

\* under the default policy a loan has been returned less than a day late,
\* ended OVERDUE and was charged one daily rate
C27Witness ==
    /\ fineConfig = NoConfig
    /\ \E i \in LoanIds :
          /\ loans[i].returned
          /\ loans[i].returnDate - loans[i].dueDate \in 1..(TicksPerDay - 1)
          /\ loans[i].status = "OVERDUE"
          /\ loans[i].totalFine - loans[i].damageFine = DefaultDailyFine

\* C28: returnDate is null while a loan is ACTIVE and a loan with a
\* returnDate is terminal; returnBook takes the return instant when it
\* computes the fines, and its transaction stores that instant, the one the
\* overdue fine of the loan was computed for.
ReturnDateIsReturnInstant ==
    /\ [](\A i \in LoanIds :
             /\ loans[i].status = "ACTIVE" => loans[i].returnDate = NoDate
             /\ loans[i].returnDate # NoDate => loans[i].status \in Terminal)
    /\ [][/\ (pc["p1"] = "idle" /\ pc'["p1"] = "returnTx")
                => loc'["p1"].returnDate = now
          /\ (pc["p1"] = "returnTx" /\ resp' = "Returned")
                => LET i == loc["p1"].borrowingId IN
                   /\ loans'[i].returnDate = loc["p1"].returnDate
                   /\ loans'[i].returnDate # NoDate
                   /\ loans'[i].totalFine - loans'[i].damageFine
                         = LateDays(loans'[i]) * PolicyDailyRate]_vars

\* a return computed on time has just committed after the due date: the
\* loan carries the instant of the computation and is RETURNED without
\* overdue fine
C28Witness ==
    /\ resp = "Returned"
    /\ \E i \in LoanIds :
          /\ loans[i].returned
          /\ loans[i].returnDate # NoDate
          /\ loans[i].returnDate <= loans[i].dueDate
          /\ now > loans[i].dueDate
          /\ loans[i].status = "RETURNED"
          /\ loans[i].totalFine = loans[i].damageFine

\* C29: a settlement releases every participant: right after a successful
\* returnBook or reportLostBook none of the loan's participants is a
\* participant of an ACTIVE loan, so none is refused a new borrowBook as
\* already borrowing, whatever the terminal status and the fine; and the
\* requester of a successful borrowBook is a participant of the loan it
\* creates.
SettlementReleases ==
    [][\A p \in Procs :
          /\ (pc[p] \in {"returnTx", "lostTx"}
                 /\ pc'[p] = "idle"
                 /\ resp' \in {"Returned", "ReportedLost"})
                => \A st \in loans[loc[p].borrowingId].studentIds :
                      \A i \in LoanIds :
                          st \in loans'[i].studentIds
                             => loans'[i].status # "ACTIVE"
          /\ (pc[p] = "borrowTx" /\ pc'[p] = "idle" /\ resp' = "Created")
                => /\ Len(loans') = Len(loans) + 1
                   /\ loc[p].studentRows[1]
                         \in loans'[Len(loans')].studentIds]_vars

\* C30: no ACTIVE loan references a permanently deleted book: a deleteBook
\* with permanent=true deletes only a book that no ACTIVE loan references,
\* also when a borrowBook of that book runs at the same time, so that every
\* ACTIVE loan keeps its loaned item and the book row of it.
NoActiveLoanOfDeletedBook ==
    [][/\ (pc["p2"] = "deleteWrite" /\ loc["p2"].permanent
              /\ pc'["p2"] = "idle" /\ resp' = "Deleted")
             => ActiveLoansOf(loc["p2"].bookId) = {}
       /\ \A i \in 1..Len(loans') :
             loans'[i].status = "ACTIVE"
                => /\ loans'[i].bookId # NoBook
                   /\ books'[loans'[i].bookId].exists]_vars

====
